---- MODULE Spec2Model ----
(***************************************************************************)
(* PageRank (src/pagerank.py): the transition model, the sampling          *)
(* estimator and the iterative solver, as one state machine.               *)
(*                                                                         *)
(* Pages are 1..N and the corpus is a function from pages to sets of       *)
(* pages, enumerated in key order 1, 2, .., N (a dict iterates in          *)
(* insertion order; every labelled graph is enumerated, so every order is  *)
(* covered).                                                               *)
(*                                                                         *)
(* Numbers.  transition_model and the normalisation of sample_pagerank are *)
(* computed in exact rationals <<numerator, denominator>>, kept in lowest  *)
(* terms: this is Python's float arithmetic without its rounding (the      *)
(* visit counts of sample_pagerank are the rationals k/1).                 *)
(* iterate_pagerank is an unbounded iteration whose exact rationals grow   *)
(* without bound, so its ranks are fixed-point numbers, integers counting  *)
(* units of 1/SCALE, and every division rounds to the nearest unit as a    *)
(* float operation rounds to the nearest float.                            *)
(***************************************************************************)
EXTENDS Integers, FiniteSets, Sequences

\* ------------------------------------------------------------ bounds
MaxPages == 3
MaxLinks == 3
MaxSamples == 2
SCALE == 1000000

\* ------------------------------------------------- rational arithmetic
Abs(x) == IF x < 0 THEN -x ELSE x

RECURSIVE Gcd(_, _)
Gcd(a, b) == IF b = 0 THEN a ELSE Gcd(b, a % b)

\* num/den in lowest terms with a positive denominator (den # 0)
Rat(num, den) ==
    LET g == Gcd(Abs(num), Abs(den))
        s == IF den < 0 THEN -1 ELSE 1
    IN  <<(s * num) \div g, (s * den) \div g>>

RAdd(a, b) == Rat(a[1] * b[2] + b[1] * a[2], a[2] * b[2])
RSub(a, b) == Rat(a[1] * b[2] - b[1] * a[2], a[2] * b[2])
RDivInt(a, k) == Rat(a[1], a[2] * k)
RLeq(a, b) == a[1] * b[2] <= b[1] * a[2]
RZero == <<0, 1>>
ROne == <<1, 1>>

RECURSIVE RSumTo(_, _)
RSumTo(f, k) == IF k = 0 THEN RZero ELSE RAdd(RSumTo(f, k - 1), f[k])
\* the sum of the values of a mapping over pages 1..N
RSum(f) == RSumTo(f, Cardinality(DOMAIN f))

\* ------------------------------------------------------------ inputs
DAMPING == <<17, 20>>
Dampings == {DAMPING, <<1, 2>>}
SampleCounts == (-1) .. MaxSamples

len(c) == Cardinality(DOMAIN c)

RECURSIVE LinksTo(_, _)
LinksTo(c, k) == IF k = 0 THEN 0 ELSE LinksTo(c, k - 1) + Cardinality(c[k])

\* what crawl returns: links only to pages of the corpus, no self-links
CorporaOfSize(N) ==
    {c \in [1 .. N -> SUBSET (1 .. N)] :
        /\ \A p \in 1 .. N : p \notin c[p]
        /\ LinksTo(c, N) <= MaxLinks}

Corpora == UNION {CorporaOfSize(N) : N \in 0 .. MaxPages}

\* ---------------------------------------------------- transition_model
\* the mutants of transition_model, each one slip of its arithmetic
transition_model_base_over_links(corpus, page, damping_factor) ==
    LET links == Cardinality(corpus[page])
    IN  IF links # 0
        THEN LET prob == RDivInt(damping_factor, links)
                 additional_prob == RDivInt(RSub(ROne, damping_factor), links)
             IN  [page_link \in DOMAIN corpus |->
                     IF page_link \in corpus[page]
                     THEN RAdd(additional_prob, prob)
                     ELSE additional_prob]
        ELSE LET prob == RDivInt(ROne, len(corpus))
             IN  [p \in DOMAIN corpus |-> prob]

transition_model_dangling_damped(corpus, page, damping_factor) ==
    LET links == Cardinality(corpus[page])
    IN  IF links # 0
        THEN LET prob == RDivInt(damping_factor, links)
                 additional_prob == RDivInt(RSub(ROne, damping_factor), len(corpus))
             IN  [page_link \in DOMAIN corpus |->
                     IF page_link \in corpus[page]
                     THEN RAdd(additional_prob, prob)
                     ELSE additional_prob]
        ELSE LET prob == RDivInt(RSub(ROne, damping_factor), len(corpus))
             IN  [p \in DOMAIN corpus |-> prob]

transition_model_prob_over_pages(corpus, page, damping_factor) ==
    LET links == Cardinality(corpus[page])
    IN  IF links # 0
        THEN LET prob == RDivInt(damping_factor, len(corpus))
                 additional_prob == RDivInt(RSub(ROne, damping_factor), len(corpus))
             IN  [page_link \in DOMAIN corpus |->
                     IF page_link \in corpus[page]
                     THEN RAdd(additional_prob, prob)
                     ELSE additional_prob]
        ELSE LET prob == RDivInt(ROne, len(corpus))
             IN  [p \in DOMAIN corpus |-> prob]

transition_model(corpus, page, damping_factor) ==
    LET links == Cardinality(corpus[page])
    IN  IF links # 0
        THEN LET prob == RDivInt(damping_factor, links)
                 additional_prob == RDivInt(RSub(ROne, damping_factor), len(corpus))
             IN  [page_link \in DOMAIN corpus |->
                     IF page_link \in corpus[page]
                     THEN RAdd(additional_prob, prob)
                     ELSE additional_prob]
        ELSE LET prob == RDivInt(ROne, len(corpus))
             IN  [p \in DOMAIN corpus |-> prob]

\* ------------------------------------------------------------- state
VARIABLES
    corpus,           \* the corpus of the run
    pc,               \* where the program is
    damping_factor,   \* the damping factor of the call in progress
    page,             \* transition_model: its page; iterate_pagerank: the page of the for loop
    model,            \* the mapping transition_model returned last
    n,                \* sample_pagerank: the sample count
    i,                \* sample_pagerank: the loop index
    random_page,      \* sample_pagerank: the current page
    sample_d,         \* sample_pagerank: its mapping d
    iterate_d,        \* iterate_pagerank: its mapping d
    walk,             \* history: the current page at each loop step of sample_pagerank
    converted_count,  \* iterate_pagerank: pages within the threshold in this pass
    converged,        \* iterate_pagerank: the loop flag
    snapshot          \* history: iterate_d as it was when the pass in progress began

vars == <<corpus, pc, damping_factor, page, model, n, i, random_page, sample_d, iterate_d, walk,
          converted_count, converged, snapshot>>

None == <<>>

Init ==
    /\ corpus \in Corpora
    /\ pc = "idle"
    /\ damping_factor = None
    /\ page = 0
    /\ model = None
    /\ n = 0
    /\ i = 0
    /\ random_page = 0
    /\ sample_d = None
    /\ iterate_d = None
    /\ walk = <<>>
    /\ converted_count = 0
    /\ converged = FALSE
    /\ snapshot = None

\* a call transition_model(corpus, p, df) with p a key of the corpus
TransitionModelCall ==
    /\ pc = "idle"
    /\ \E p \in DOMAIN corpus, df \in Dampings :
        /\ page' = p
        /\ damping_factor' = df
        /\ model' = transition_model(corpus, p, df)
    /\ pc' = "tm_returned"
    /\ UNCHANGED <<corpus, n, i, random_page, sample_d, iterate_d, walk, converted_count, converged, snapshot>>

\* --------------------------------------------------- sample_pagerank
\* "for page in d: d[page] /= n", n # 0
normalise_by_pages(dd, nn) == [p \in DOMAIN dd |-> RDivInt(dd[p], len(dd))]

normalise(dd, nn) == [p \in DOMAIN dd |-> RDivInt(dd[p], nn)]

\* the pages random.choices can return: those of positive weight
choices(all_pages, weights) == {p \in all_pages : ~RLeq(weights[p], RZero)}

\* a call sample_pagerank(corpus, df, nn), up to the loop: random.choice raises
\* IndexError on an empty corpus
SampleStart ==
    /\ pc = "idle"
    /\ \E nn \in SampleCounts, df \in Dampings :
        /\ n' = nn
        /\ damping_factor' = df
    /\ IF len(corpus) = 0
       THEN /\ pc' = "sample_error"
            /\ UNCHANGED <<random_page, sample_d>>
       ELSE /\ pc' = "sampling"
            /\ random_page' \in DOMAIN corpus
            /\ sample_d' = [p \in DOMAIN corpus |-> RZero]
    /\ i' = 0
    /\ UNCHANGED <<corpus, iterate_d, page, model, walk, converted_count, converged, snapshot>>

\* one turn of "for i in range(n)"
SampleStep ==
    /\ pc = "sampling"
    /\ i < n
    /\ sample_d' = [sample_d EXCEPT ![random_page] = RAdd(@, ROne)]
    /\ model' = transition_model(corpus, random_page, damping_factor)
    /\ random_page' \in choices(DOMAIN corpus, model')
    /\ i' = i + 1
    /\ walk' = Append(walk, random_page)
    /\ UNCHANGED <<corpus, iterate_d, pc, damping_factor, page, n, converted_count, converged, snapshot>>

\* range(n) is exhausted (at once when n <= 0): normalise and return; the
\* division raises ZeroDivisionError when n = 0
SampleFinish ==
    /\ pc = "sampling"
    /\ ~(i < n)
    /\ IF n = 0
       THEN /\ pc' = "sample_error"
            /\ UNCHANGED sample_d
       ELSE /\ pc' = "sample_returned"
            /\ sample_d' = normalise(sample_d, n)
    /\ UNCHANGED <<corpus, iterate_d, damping_factor, page, model, n, i, random_page, walk,
                   converted_count, converged, snapshot>>

\* -------------------------------------------------- iterate_pagerank
\* a / b rounded to the nearest unit (a >= 0, b > 0)
FRound(a, b) == (2 * a + b) \div (2 * b)

\* 0.001, the threshold of the convergence test
EPS == SCALE \div 1000

\* 1 / N
random_odds(N) == FRound(SCALE, N)

\* (1 - damping_factor) / N
odds(df, N) == FRound(FRound((df[2] - df[1]) * SCALE, df[2]), N)

\* the inner loop "for link in corpus", over links 1..k:
\* summation += damping_factor * d[link] / len(corpus[link]) when page in corpus[link]
RECURSIVE summation(_, _, _, _, _)
summation(c, dd, df, pg, k) ==
    IF k = 0 THEN 0
    ELSE summation(c, dd, df, pg, k - 1)
         + (IF pg \in c[k]
            THEN FRound(FRound(df[1] * dd[k], df[2]), Cardinality(c[k]))
            ELSE 0)

\* the convergence test of one page
page_converged_without_odds(old, base, sum) == Abs(old - sum) < EPS

page_converged(old, base, sum) == Abs(old - (base + sum)) < EPS

\* a call iterate_pagerank(corpus, df), up to the loop: 1 / N raises
\* ZeroDivisionError on an empty corpus
IterateStart ==
    /\ pc = "idle"
    /\ \E df \in Dampings : damping_factor' = df
    /\ IF len(corpus) = 0
       THEN /\ pc' = "iterate_error"
            /\ UNCHANGED iterate_d
       ELSE /\ pc' = "iterate_while"
            /\ iterate_d' = [p \in DOMAIN corpus |-> random_odds(len(corpus))]
    /\ converged' = FALSE
    /\ UNCHANGED <<corpus, sample_d, page, model, n, i, random_page, walk, converted_count, snapshot>>

\* "while not converged" entered: the count is reset and the for loop begins
PassBegin ==
    /\ pc = "iterate_while"
    /\ ~converged
    /\ pc' = "iterate_for"
    /\ converted_count' = 0
    /\ page' = 1
    /\ snapshot' = iterate_d
    /\ UNCHANGED <<corpus, sample_d, damping_factor, model, n, i, random_page, iterate_d, walk, converged>>

\* one turn of "for page in corpus": the new rank of page from d as it is now
PageUpdate ==
    /\ pc = "iterate_for"
    /\ page <= len(corpus)
    /\ LET N == len(corpus)
           base == odds(damping_factor, N)
           sum == summation(corpus, iterate_d, damping_factor, page, N)
       IN  /\ converted_count' = IF page_converged(iterate_d[page], base, sum)
                                 THEN converted_count + 1
                                 ELSE converted_count
           /\ iterate_d' = [iterate_d EXCEPT ![page] = base + sum]
    /\ page' = page + 1
    /\ UNCHANGED <<corpus, sample_d, pc, damping_factor, model, n, i, random_page, walk,
                   converged, snapshot>>

\* the for loop is exhausted: "if converted_count == N: converged = True"
PassEndOnAnyPage ==
    /\ pc = "iterate_for"
    /\ page > len(corpus)
    /\ converged' = (converted_count >= 1)
    /\ pc' = "iterate_while"
    /\ UNCHANGED <<corpus, sample_d, damping_factor, page, model, n, i, random_page, iterate_d, walk,
                   converted_count, snapshot>>

PassEnd ==
    /\ pc = "iterate_for"
    /\ page > len(corpus)
    /\ converged' = (converted_count = len(corpus))
    /\ pc' = "iterate_while"
    /\ UNCHANGED <<corpus, sample_d, damping_factor, page, model, n, i, random_page, iterate_d, walk,
                   converted_count, snapshot>>

\* "while not converged" left: return d
IterateReturn ==
    /\ pc = "iterate_while"
    /\ converged
    /\ pc' = "iterate_returned"
    /\ UNCHANGED <<corpus, sample_d, damping_factor, page, model, n, i, random_page, iterate_d, walk,
                   converted_count, converged, snapshot>>

IterateNext == PassBegin \/ PageUpdate \/ PassEnd \/ IterateReturn

Next ==
    \/ TransitionModelCall
    \/ SampleStart
    \/ SampleStep
    \/ SampleFinish
    \/ IterateStart
    \/ IterateNext

Spec == Init /\ [][Next]_vars

\* the interpreter keeps running the loop of iterate_pagerank
FairSpec == Spec /\ WF_vars(IterateNext)

\* ------------------------------------------------------------ claims
\* the number of loop steps of sample_pagerank at which p was the current page
Visits(p) == Cardinality({k \in 1 .. Len(walk) : walk[k] = p})

RECURSIVE FSumTo(_, _)
FSumTo(f, k) == IF k = 0 THEN 0 ELSE FSumTo(f, k - 1) + f[k]
\* the sum of the fixed-point ranks of a mapping over pages 1..N
FSum(f) == FSumTo(f, len(f))

\* the rank the recurrence gives page p when every rank is read from mapping r
RecurrenceFrom(r, p) ==
    odds(damping_factor, len(corpus))
    + summation(corpus, r, damping_factor, p, len(corpus))

\* C1: the ranks iterate_pagerank returns sum to 1.0 within 0.001 * N, for
\* every corpus, corpora with dangling pages included.
IterateRanksSumToOne ==
    pc = "iterate_returned" => Abs(FSum(iterate_d) - SCALE) <= EPS * len(corpus)

\* C2: transition_model returns a mapping over exactly the pages of the
\* corpus, with every value >= 0 and the values summing to 1.
TransitionModelIsDistribution ==
    pc = "tm_returned" =>
        /\ DOMAIN model = DOMAIN corpus
        /\ \A p \in DOMAIN model : RLeq(RZero, model[p])
        /\ RSum(model) = ROne

TransitionModelLinkedReached ==
    /\ pc = "tm_returned"
    /\ len(corpus) = 3
    /\ Cardinality(corpus[page]) = 2

\* C3: for a current page without outbound links transition_model gives
\* every page of the corpus, the current page included, exactly 1/N,
\* whatever the damping factor.
DanglingIsUniform ==
    (pc = "tm_returned" /\ corpus[page] = {}) =>
        \A p \in DOMAIN corpus : model[p] = Rat(1, len(corpus))

DanglingCallReached ==
    /\ pc = "tm_returned"
    /\ corpus[page] = {}
    /\ len(corpus) >= 2
    /\ damping_factor # DAMPING

\* C4: sample_pagerank returns for each page the number of loop steps at
\* which it was the current page, divided by n; the counts sum to n, so the
\* returned values lie in [0, 1] and sum exactly to 1.
SampleRanksAreVisitFrequencies ==
    /\ pc = "sampling" =>
        /\ Len(walk) = i
        /\ \A p \in DOMAIN corpus : sample_d[p] = Rat(Visits(p), 1)
        /\ RSum(sample_d) = Rat(i, 1)
    /\ (pc = "sample_returned" /\ n >= 1) =>
        /\ Len(walk) = n
        /\ DOMAIN sample_d = DOMAIN corpus
        /\ \A p \in DOMAIN corpus :
            /\ sample_d[p] = Rat(Visits(p), n)
            /\ RLeq(RZero, sample_d[p])
            /\ RLeq(sample_d[p], ROne)
        /\ RSum(sample_d) = ROne

SampleOfTwoPagesReached ==
    /\ pc = "sample_returned"
    /\ n = 2
    /\ len(corpus) = 3
    /\ walk[1] # walk[2]

\* C5: on the corpus of one page without links both sample_pagerank (n >= 1)
\* and iterate_pagerank return rank 1.0 for that page.
SinglePageRankIsOne ==
    /\ (len(corpus) = 1 /\ pc = "sample_returned" /\ n >= 1) => sample_d[1] = ROne
    /\ (len(corpus) = 1 /\ pc = "iterate_returned") => iterate_d[1] = SCALE

\* C6: sample_pagerank returns no mapping when n <= 0 or the corpus is
\* empty: it ends in an error.
SampleFailsOnBadInput ==
    pc = "sample_returned" => (n >= 1 /\ len(corpus) >= 1)

\* C7: the while loop of iterate_pagerank terminates: once the loop is
\* reached, a pass in which all pages are within the threshold occurs and
\* the function returns.
IterateTerminates == (pc = "iterate_while") ~> (pc = "iterate_returned")

IterateReturnedAfterCycle ==
    /\ pc = "iterate_returned"
    /\ len(corpus) = 3
    /\ corpus[1] = {2}
    /\ 1 \in corpus[2]
    /\ iterate_d[1] # random_odds(3)

\* C8: every page updated in a pass has the rank the recurrence gives from
\* the ranks of the end of the previous pass, never from a rank overwritten
\* earlier in the same pass.
PassReadsSnapshot ==
    pc = "iterate_for" =>
        \A p \in 1 .. (page - 1) : iterate_d[p] = RecurrenceFrom(snapshot, p)

\* C9: iterate_pagerank becomes converged, and returns, only at the end of
\* a full pass in which every page moved by less than 0.001 from its value
\* before the pass; the count is reset when a pass begins, the for loop is
\* never left mid-pass, and a pass in which a page fails the test is
\* followed by another full pass.
ConvergedOnlyAfterFullPass ==
    [][/\ (~converged /\ converged') =>
            /\ pc = "iterate_for"
            /\ page = len(corpus) + 1
            /\ \A p \in DOMAIN corpus : Abs(iterate_d[p] - snapshot[p]) < EPS
       /\ (pc # "iterate_returned" /\ pc' = "iterate_returned") =>
            (pc = "iterate_while" /\ converged)
       /\ (pc = "iterate_while" /\ pc' = "iterate_for") =>
            (converted_count' = 0 /\ page' = 1)
       /\ (pc = "iterate_for" /\ pc' # "iterate_for") =>
            (page = len(corpus) + 1 /\ pc' = "iterate_while")
       /\ (pc = "iterate_for" /\ pc' = "iterate_while"
             /\ \E p \in DOMAIN corpus : Abs(iterate_d[p] - snapshot[p]) >= EPS) =>
            ~converged'
       /\ (pc = "iterate_while" /\ ~converged) => pc' = "iterate_for"]_vars

PassWithFailingPageReached ==
    /\ pc = "iterate_while"
    /\ ~converged
    /\ converted_count >= 1
    /\ converted_count < len(corpus)

\* C10: for a current page with L >= 1 outbound links transition_model
\* gives a page exactly (1-d)/N when the current page does not link to it
\* and exactly (1-d)/N + d/L when it does.
LinkedPageProbabilities ==
    (pc = "tm_returned" /\ corpus[page] # {}) =>
        LET L == Cardinality(corpus[page])
            N == len(corpus)
            base == Rat(damping_factor[2] - damping_factor[1], damping_factor[2] * N)
            extra == Rat(damping_factor[1], damping_factor[2] * L)
        IN  \A p \in DOMAIN corpus :
                model[p] = IF p \in corpus[page] THEN RAdd(base, extra) ELSE base

LinkedAndUnlinkedReached ==
    /\ pc = "tm_returned"
    /\ len(corpus) = 3
    /\ Cardinality(corpus[page]) = 1
    /\ damping_factor = DAMPING
====
